---- MODULE Spec2Model ----
(***************************************************************************)
(* crates_io_updates_bot (src/src/main.rs): a chat bot that keeps a        *)
(* mutex-protected map from crate name to last known version               *)
(* (VERSION_MAP), answers the chat commands list / add / remove / help on  *)
(* the main thread (register_handles) and re-checks every watched crate    *)
(* on a background thread (update_check_loop).                             *)
(*                                                                         *)
(* Strings are sequences of text pieces: a crate name and a version are    *)
(* sequences of one-character pieces, the literal parts of a format!       *)
(* template are one piece each, and string concatenation is \o.  The       *)
(* empty string is << >>.  The backquote of the templates is written ' .   *)
(***************************************************************************)
EXTENDS Naturals, Sequences, FiniteSets

VARIABLES
    VERSION_MAP,   \* the HashMap inside the Mutex: [set of names -> version]
    lock,          \* the set of threads holding the Mutex guard
    poisoned,      \* the Mutex's poison flag
    mainpc,        \* position of the main thread
    msg,           \* the inbound message being handled
    names,         \* add/remove: the names the iterator has not yet yielded
    result,        \* add: what the last latest_version call returned
    output,        \* the handler's output String
    replies,       \* messages the handler has sent for the current message
    pollpc,        \* position of the update_check_loop thread
    todo,          \* poll: the entries iter_mut has not yet yielded
    latest,        \* poll: the version the last latest_version call returned
    poll_output,   \* poll: the notification String collected so far
    notes,         \* messages the poll loop has sent in the current cycle
    registry       \* crates.io: the version numbers a lookup may now return

vars == <<VERSION_MAP, lock, poisoned, mainpc, msg, names, result,
          output, replies, pollpc, todo, latest, poll_output, notes, registry>>

mainVars == <<mainpc, msg, names, result, output, replies>>
pollVars == <<pollpc, todo, latest, poll_output, notes>>

----------------------------------------------------------------------------
(* Bounds and the small world the model runs in.                           *)

MaxTail == 3                       \* longest command tail, in characters

Chars == {" ", "a"}                     \* the characters a tail is made of
KnownNames == {<<"a">>, <<"a", "a">>}   \* the names crates.io may have a crate for
Versions == {<<"1">>, <<"2">>}          \* the version numbers crates.io may report

Room == "!r:example.org"           \* OPTS.room
OtherRoom == "!other:example.org"
Rooms == {Room, OtherRoom}

Cmds == {"list", "add", "remove", "help"}

Tails == UNION {[1..n -> Chars] : n \in 0..MaxTail}

Messages == [room : Rooms, cmd : Cmds \cup {"none"}, tail : Tails]

NoMsg == [room |-> "", cmd |-> "none", tail |-> << >>]

----------------------------------------------------------------------------
(* The registry client.                                                    *)

Ok(v) == [kind |-> "Ok", num |-> v]
NotFound == [kind |-> "NotFound", num |-> << >>]
OtherError == [kind |-> "Other", num |-> << >>]

NoResult == [kind |-> "None", num |-> << >>]

\* What a call of latest_version(crate_name) may return: crates.io is outside
\* the program and may answer differently on every call, with one of the
\* version numbers it may report at that moment or with an error.
latest_version(crate_name) ==
    IF crate_name \in KnownNames
    THEN {Ok(v) : v \in registry} \cup {NotFound, OtherError}
    ELSE {NotFound, OtherError}

ErrorText == <<"registry error">>  \* Display of a crates_io_api::Error other than NotFound

----------------------------------------------------------------------------
(* tail.split(' ').filter(|crate_name| !crate_name.is_empty())             *)

RECURSIVE Split(_)
Split(s) ==
    IF \A i \in 1..Len(s) : s[i] # " "
    THEN <<s>>
    ELSE LET i == CHOOSE k \in 1..Len(s) :
                      s[k] = " " /\ \A j \in 1..(k - 1) : s[j] # " "
         IN  <<SubSeq(s, 1, i - 1)>> \o Split(SubSeq(s, i + 1, Len(s)))

\* Mutant: the filter lets every piece through.
NonEmptyUnfiltered(crate_name) == TRUE

NonEmpty(crate_name) == crate_name # << >>

CrateNames(tail) == SelectSeq(Split(tail), NonEmpty)

----------------------------------------------------------------------------
(* The format! templates.                                                  *)

ListLine(crate_name, version) ==
    <<"'">> \o crate_name \o <<"':\t'">> \o version \o <<"'\n">>

AddedLine(crate_name, version) ==
    <<"Added '">> \o crate_name \o <<"' version '">> \o version \o <<"'\n">>

NotFoundLine(crate_name) ==
    <<"Error: '">> \o crate_name \o <<"' not found\n">>

ErrorLine(crate_name, error) ==
    <<"Error: '">> \o crate_name \o <<"', ">> \o error \o <<"\n">>

RemovedLine(crate_name, version) ==
    <<"Removed '">> \o crate_name \o <<"' (version '">> \o version \o <<"')\n">>

\* Mutant: the error line leaves the name out.
NotWatchedLineUnnamed(crate_name) ==
    <<"Error: '">> \o <<"' being watched\n">>

NotWatchedLine(crate_name) ==
    <<"Error: '">> \o crate_name \o <<"' being watched\n">>

UpdatedNote(crate_name, version, new) ==
    <<"'">> \o crate_name \o <<"' updated from version '">> \o version
        \o <<"' to '">> \o new \o <<"'!">>

NoCrates == <<"No crates being watched">>

HELP == <<"\n!add <crate>... - Add crates to be watched;\n!list - List watched crates.\n!remove <crate>... - Remove crates from watch list.\n!help - Show this dialog.\n">>

----------------------------------------------------------------------------
(* HashMap operations.                                                     *)

EmptyMap == [n \in {} |-> << >>]

\* Mutant: entry(k).or_insert(v), an existing entry is kept.
MapInsertIfAbsent(map, k, v) ==
    [n \in (DOMAIN map) \cup {k} |-> IF n \in DOMAIN map THEN map[n] ELSE v]

MapInsert(map, k, v) ==
    [n \in (DOMAIN map) \cup {k} |-> IF n = k THEN v ELSE map[n]]

\* Mutant: the entry is read (get) but not taken out.
MapRemoveKeeps(map, k) == map

MapRemove(map, k) ==
    [n \in (DOMAIN map) \ {k} |-> map[n]]

\* The orders in which HashMap::iter / iter_mut may yield the keys.
IterOrders(map) ==
    {s \in [1..Cardinality(DOMAIN map) -> DOMAIN map] :
        \A i, j \in 1..Cardinality(DOMAIN map) : i # j => s[i] # s[j]}

\* Mutant: only the first entry is rendered.
ListOutputFirstOnly(map, order) ==
    IF order = << >> THEN << >> ELSE ListLine(Head(order), map[Head(order)])

RECURSIVE ListOutput(_, _)
ListOutput(map, order) ==
    IF order = << >> THEN << >>
    ELSE ListLine(Head(order), map[Head(order)]) \o ListOutput(map, Tail(order))

Message(body) == [room |-> Room, body |-> body]

----------------------------------------------------------------------------
(* The Mutex: lock() blocks until no thread holds the guard; unwrap()      *)
(* panics when the Mutex is poisoned.                                      *)

Acquire(thread) ==
    /\ lock = {}
    /\ ~poisoned
    /\ lock' = lock \cup {thread}

\* Mutant: the guard is kept (bound to a variable that outlives the block)
\* instead of being dropped.
ReleaseKeeps(thread) == lock' = lock

Release(thread) == lock' = lock \ {thread}

\* A panic of the main thread ends the process.
Alive == mainpc # "dead"

\* lock().unwrap() on the main thread when the Mutex is poisoned.
MainPanic ==
    /\ mainpc' = "dead"
    /\ UNCHANGED <<registry, VERSION_MAP, lock, poisoned, msg, names, result,
                   output, replies, pollVars>>

\* Mutant: the room check is missing.
InRoomUnchecked(m) == TRUE

InRoom(m) == m.room = Room

send_message(body) == replies' = Append(replies, Message(body))

----------------------------------------------------------------------------
(* Init: the state when main has spawned update_check_loop and enters its  *)
(* receive loop.                                                           *)

Init ==
    /\ VERSION_MAP = EmptyMap
    /\ lock = {}
    /\ poisoned = FALSE
    /\ mainpc = "recv"
    /\ msg = NoMsg
    /\ names = << >>
    /\ result = NoResult
    /\ output = << >>
    /\ replies = << >>
    /\ pollpc = "sleep"
    /\ todo = << >>
    /\ latest = << >>
    /\ poll_output = << >>
    /\ notes = << >>
    /\ registry = Versions

----------------------------------------------------------------------------
(* The main thread: bot.recv_and_handle dispatches an inbound message to   *)
(* the handler registered for its command.                                 *)

\* A message that matches no registered command: no handler runs.
RecvOther(m) ==
    /\ mainpc = "recv"
    /\ m.cmd = "none"
    /\ msg' = m
    /\ mainpc' = "done"
    /\ UNCHANGED <<registry, VERSION_MAP, lock, poisoned, names, result,
                   output, replies, pollVars>>

\* Entry of a handler closure: the room check, then the handler's first step.
Enter(m, cmd, first) ==
    /\ mainpc = "recv"
    /\ m.cmd = cmd
    /\ msg' = m
    /\ mainpc' = IF InRoom(m) THEN first ELSE "done"
    /\ names' = IF InRoom(m) /\ cmd \in {"add", "remove"}
                THEN CrateNames(m.tail) ELSE << >>
    /\ UNCHANGED <<registry, VERSION_MAP, lock, poisoned, result,
                   output, replies, pollVars>>

\* HandleResult::StopHandling: back to the receive loop.
Return ==
    /\ mainpc = "done"
    /\ mainpc' = "recv"
    /\ msg' = NoMsg
    /\ names' = << >>
    /\ result' = NoResult
    /\ output' = << >>
    /\ replies' = << >>
    /\ UNCHANGED <<registry, VERSION_MAP, lock, poisoned, pollVars>>

\* recv_and_handle returns false: main leaves the loop and joins the poll thread.
Stop ==
    /\ mainpc = "recv"
    /\ mainpc' = "join"
    /\ UNCHANGED <<registry, VERSION_MAP, lock, poisoned, msg, names, result,
                   output, replies, pollVars>>

\* handle.join().unwrap() when the poll thread has panicked.
JoinPanic ==
    /\ mainpc = "join"
    /\ pollpc = "dead"
    /\ MainPanic

(* list *)

HandleList(m) == Enter(m, "list", "list_lock")

ListLock ==
    /\ mainpc = "list_lock"
    /\ Acquire("main")
    /\ mainpc' = "list_locked"
    /\ UNCHANGED <<registry, VERSION_MAP, poisoned, msg, names, result,
                   output, replies, pollVars>>

ListLockPoisoned ==
    /\ mainpc = "list_lock"
    /\ lock = {}
    /\ poisoned
    /\ MainPanic

\* Mutant: the snapshot is taken with drain(), which empties the map.
ListSnapshotDrains ==
    /\ mainpc = "list_locked"
    /\ \E order \in IterOrders(VERSION_MAP) :
          output' = IF DOMAIN VERSION_MAP = {}
                    THEN NoCrates
                    ELSE ListOutput(VERSION_MAP, order)
    /\ VERSION_MAP' = EmptyMap
    /\ Release("main")
    /\ mainpc' = "list_send"
    /\ UNCHANGED <<registry, poisoned, msg, names, result, replies, pollVars>>

ListSnapshot ==
    /\ mainpc = "list_locked"
    /\ \E order \in IterOrders(VERSION_MAP) :
          output' = IF DOMAIN VERSION_MAP = {}
                    THEN NoCrates
                    ELSE ListOutput(VERSION_MAP, order)
    /\ Release("main")
    /\ mainpc' = "list_send"
    /\ UNCHANGED <<registry, VERSION_MAP, poisoned, msg, names, result,
                   replies, pollVars>>

ListSend ==
    /\ mainpc = "list_send"
    /\ send_message(output)
    /\ mainpc' = "done"
    /\ UNCHANGED <<registry, VERSION_MAP, lock, poisoned, msg, names, result,
                   output, pollVars>>

(* add *)

HandleAdd(m) == Enter(m, "add", "add_next")

\* Mutant: a lookup that fails ends the whole command.
AddQueryStopsAtError ==
    /\ mainpc = "add_next"
    /\ names # << >>
    /\ LET crate_name == Head(names)
       IN  /\ result' \in latest_version(crate_name)
           /\ CASE result'.kind = "Ok" ->
                    /\ mainpc' = "add_lock"
                    /\ UNCHANGED <<names, output>>
                [] result'.kind = "NotFound" ->
                    /\ output' = output \o NotFoundLine(crate_name)
                    /\ names' = << >>
                    /\ UNCHANGED mainpc
                [] OTHER ->
                    /\ output' = output \o ErrorLine(crate_name, ErrorText)
                    /\ names' = << >>
                    /\ UNCHANGED mainpc
    /\ UNCHANGED <<registry, VERSION_MAP, lock, poisoned, msg, replies, pollVars>>

\* The iterator yields the next name and latest_version is called, no lock held.
AddQuery ==
    /\ mainpc = "add_next"
    /\ names # << >>
    /\ LET crate_name == Head(names)
       IN  /\ result' \in latest_version(crate_name)
           /\ CASE result'.kind = "Ok" ->
                    /\ mainpc' = "add_lock"
                    /\ UNCHANGED <<names, output>>
                [] result'.kind = "NotFound" ->
                    /\ output' = output \o NotFoundLine(crate_name)
                    /\ names' = Tail(names)
                    /\ UNCHANGED mainpc
                [] OTHER ->
                    /\ output' = output \o ErrorLine(crate_name, ErrorText)
                    /\ names' = Tail(names)
                    /\ UNCHANGED mainpc
    /\ UNCHANGED <<registry, VERSION_MAP, lock, poisoned, msg, replies, pollVars>>

AddLock ==
    /\ mainpc = "add_lock"
    /\ Acquire("main")
    /\ mainpc' = "add_insert"
    /\ UNCHANGED <<registry, VERSION_MAP, poisoned, msg, names, result,
                   output, replies, pollVars>>

AddLockPoisoned ==
    /\ mainpc = "add_lock"
    /\ lock = {}
    /\ poisoned
    /\ MainPanic

AddInsert ==
    /\ mainpc = "add_insert"
    /\ VERSION_MAP' = MapInsert(VERSION_MAP, Head(names), result.num)
    /\ Release("main")
    /\ output' = output \o AddedLine(Head(names), result.num)
    /\ names' = Tail(names)
    /\ mainpc' = "add_next"
    /\ UNCHANGED <<registry, poisoned, msg, result, replies, pollVars>>

AddSend ==
    /\ mainpc = "add_next"
    /\ names = << >>
    /\ output' = IF output = << >> THEN NoCrates ELSE output
    /\ send_message(output')
    /\ mainpc' = "done"
    /\ UNCHANGED <<registry, VERSION_MAP, lock, poisoned, msg, names, result, pollVars>>

(* remove *)

HandleRemove(m) == Enter(m, "remove", "remove_next")

RemoveLock ==
    /\ mainpc = "remove_next"
    /\ names # << >>
    /\ Acquire("main")
    /\ mainpc' = "remove_locked"
    /\ UNCHANGED <<registry, VERSION_MAP, poisoned, msg, names, result,
                   output, replies, pollVars>>

RemoveLockPoisoned ==
    /\ mainpc = "remove_next"
    /\ names # << >>
    /\ lock = {}
    /\ poisoned
    /\ MainPanic

RemoveEntry ==
    /\ mainpc = "remove_locked"
    /\ LET crate_name == Head(names)
       IN  /\ VERSION_MAP' = MapRemove(VERSION_MAP, crate_name)
           /\ output' = output \o
                 (IF crate_name \in DOMAIN VERSION_MAP
                  THEN RemovedLine(crate_name, VERSION_MAP[crate_name])
                  ELSE NotWatchedLine(crate_name))
    /\ Release("main")
    /\ names' = Tail(names)
    /\ mainpc' = "remove_next"
    /\ UNCHANGED <<registry, poisoned, msg, result, replies, pollVars>>

RemoveSend ==
    /\ mainpc = "remove_next"
    /\ names = << >>
    /\ send_message(output)
    /\ mainpc' = "done"
    /\ UNCHANGED <<registry, VERSION_MAP, lock, poisoned, msg, names, result,
                   output, pollVars>>

(* help *)

HandleHelp(m) == Enter(m, "help", "help_send")

HelpSend ==
    /\ mainpc = "help_send"
    /\ send_message(HELP)
    /\ mainpc' = "done"
    /\ UNCHANGED <<registry, VERSION_MAP, lock, poisoned, msg, names, result,
                   output, pollVars>>

----------------------------------------------------------------------------
(* The poll thread: update_check_loop.                                     *)

\* Mutant: the scan runs over the keys without keeping the guard.
PollLockBrief ==
    /\ Alive
    /\ pollpc = "sleep"
    /\ lock = {}
    /\ ~poisoned
    /\ todo' \in IterOrders(VERSION_MAP)
    /\ poll_output' = << >>
    /\ pollpc' = "scan"
    /\ UNCHANGED <<registry, VERSION_MAP, lock, poisoned, mainVars, latest, notes>>

\* sleep returns; VERSION_MAP.lock().unwrap().iter_mut() starts the scan.
\* (Only this thread poisons the Mutex, so it never finds it poisoned.)
PollLock ==
    /\ Alive
    /\ pollpc = "sleep"
    /\ Acquire("poll")
    /\ todo' \in IterOrders(VERSION_MAP)
    /\ poll_output' = << >>
    /\ pollpc' = "scan"
    /\ UNCHANGED <<registry, VERSION_MAP, poisoned, mainVars, latest, notes>>

\* Mutant: the change is announced but the store *version = latest is missing.
PollEntryNoStore ==
    /\ Alive
    /\ pollpc = "scan"
    /\ todo # << >>
    /\ LET crate_name == Head(todo)
           version == VERSION_MAP[crate_name]
       IN  \E answer \in latest_version(crate_name) :
              /\ answer.kind = "Ok"
              /\ latest' = answer.num
              /\ IF version # latest'
                 THEN poll_output' = poll_output
                         \o UpdatedNote(crate_name, version, latest')
                 ELSE UNCHANGED poll_output
    /\ todo' = Tail(todo)
    /\ UNCHANGED <<registry, VERSION_MAP, lock, poisoned, mainVars, pollpc, notes>>

\* Mutant: the lookup is answered from a cache, with a version number that
\* crates.io may no longer report.
PollEntryStale ==
    /\ Alive
    /\ pollpc = "scan"
    /\ todo # << >>
    /\ LET crate_name == Head(todo)
           version == VERSION_MAP[crate_name]
       IN  \E v \in Versions :
              /\ crate_name \in KnownNames
              /\ latest' = v
              /\ IF version # latest'
                 THEN /\ poll_output' = poll_output
                             \o UpdatedNote(crate_name, version, latest')
                      /\ VERSION_MAP' = [VERSION_MAP EXCEPT ![crate_name] = latest']
                 ELSE UNCHANGED <<poll_output, VERSION_MAP>>
    /\ todo' = Tail(todo)
    /\ UNCHANGED <<registry, lock, poisoned, mainVars, pollpc, notes>>

\* One call of the map closure, latest_version(..) answering Ok.
PollEntry ==
    /\ Alive
    /\ pollpc = "scan"
    /\ todo # << >>
    /\ LET crate_name == Head(todo)
           version == VERSION_MAP[crate_name]
       IN  \E answer \in latest_version(crate_name) :
              /\ answer.kind = "Ok"
              /\ latest' = answer.num
              /\ IF version # latest'
                 THEN /\ poll_output' = poll_output
                             \o UpdatedNote(crate_name, version, latest')
                      /\ VERSION_MAP' = [VERSION_MAP EXCEPT ![crate_name] = latest']
                 ELSE UNCHANGED <<poll_output, VERSION_MAP>>
    /\ todo' = Tail(todo)
    /\ UNCHANGED <<registry, lock, poisoned, mainVars, pollpc, notes>>

\* Mutant: unwrap_or_default() in place of unwrap(): a failed lookup counts
\* as the empty version.
PollPanicStoresDefault ==
    /\ Alive
    /\ pollpc = "scan"
    /\ todo # << >>
    /\ \E answer \in latest_version(Head(todo)) : answer.kind # "Ok"
    /\ latest' = << >>
    /\ poll_output' = poll_output
            \o UpdatedNote(Head(todo), VERSION_MAP[Head(todo)], << >>)
    /\ VERSION_MAP' = [VERSION_MAP EXCEPT ![Head(todo)] = << >>]
    /\ todo' = Tail(todo)
    /\ UNCHANGED <<registry, lock, poisoned, mainVars, pollpc, notes>>

\* latest_version(..).unwrap() on an Err: the thread panics, the guard is
\* dropped while panicking and the Mutex is poisoned.
PollPanic ==
    /\ Alive
    /\ pollpc = "scan"
    /\ todo # << >>
    /\ \E answer \in latest_version(Head(todo)) : answer.kind # "Ok"
    /\ pollpc' = "dead"
    /\ Release("poll")
    /\ poisoned' = TRUE
    /\ todo' = << >>
    /\ latest' = << >>
    /\ poll_output' = << >>
    /\ UNCHANGED <<registry, VERSION_MAP, mainVars, notes>>

\* Mutant: the test of output.is_empty() is missing.
PollCollectAlwaysSends ==
    /\ Alive
    /\ pollpc = "scan"
    /\ todo = << >>
    /\ Release("poll")
    /\ pollpc' = "send"
    /\ latest' = << >>
    /\ UNCHANGED <<registry, VERSION_MAP, poisoned, mainVars, todo, poll_output, notes>>

\* collect() ends: the guard is dropped, then the test of output.is_empty().
PollCollect ==
    /\ Alive
    /\ pollpc = "scan"
    /\ todo = << >>
    /\ Release("poll")
    /\ pollpc' = IF poll_output # << >> THEN "send" ELSE "end"
    /\ latest' = << >>
    /\ UNCHANGED <<registry, VERSION_MAP, poisoned, mainVars, todo, poll_output, notes>>

PollSend ==
    /\ Alive
    /\ pollpc = "send"
    /\ notes' = Append(notes, Message(poll_output))
    /\ pollpc' = "end"
    /\ UNCHANGED <<registry, VERSION_MAP, lock, poisoned, mainVars, todo, latest,
                   poll_output>>

\* Mutant: the loop body ends with a break.
PollLoopBreaks ==
    /\ Alive
    /\ pollpc = "end"
    /\ pollpc' = "returned"
    /\ poll_output' = << >>
    /\ notes' = << >>
    /\ UNCHANGED <<registry, VERSION_MAP, lock, poisoned, mainVars, todo, latest>>

\* End of the loop body: the next cycle begins with sleep.
PollLoop ==
    /\ Alive
    /\ pollpc = "end"
    /\ pollpc' = "sleep"
    /\ poll_output' = << >>
    /\ notes' = << >>
    /\ UNCHANGED <<registry, VERSION_MAP, lock, poisoned, mainVars, todo, latest>>

----------------------------------------------------------------------------

Next ==
    \/ \E m \in Messages : RecvOther(m)
    \/ \E m \in Messages : HandleList(m)
    \/ \E m \in Messages : HandleAdd(m)
    \/ \E m \in Messages : HandleRemove(m)
    \/ \E m \in Messages : HandleHelp(m)
    \/ Return
    \/ Stop
    \/ JoinPanic
    \/ ListLock
    \/ ListLockPoisoned
    \/ ListSnapshot
    \/ ListSend
    \/ AddQuery
    \/ AddLock
    \/ AddLockPoisoned
    \/ AddInsert
    \/ AddSend
    \/ RemoveLock
    \/ RemoveLockPoisoned
    \/ RemoveEntry
    \/ RemoveSend
    \/ HelpSend
    \/ PollLock
    \/ PollEntry
    \/ PollPanic
    \/ PollCollect
    \/ PollSend
    \/ PollLoop

Spec == Init /\ [][Next]_vars

\* Scheduling: a thread that can run does run, so the poll thread does not
\* stay for ever before a step it can take, and the main thread does not
\* stay for ever inside a statement that holds the guard; lock() returns
\* when the Mutex is free again and again.  Nothing is assumed about the
\* messages that arrive or the answers of crates.io.
Fairness ==
    /\ WF_vars(PollEntry \/ PollPanic \/ PollCollect \/ PollSend \/ PollLoop)
    /\ SF_vars(PollLock)
    /\ WF_vars(ListSnapshot \/ AddInsert \/ RemoveEntry)

FairSpec == Init /\ [][Next]_vars /\ Fairness

----------------------------------------------------------------------------
(* The same program while crates.io publishes one new version: every       *)
(* lookup that succeeds returns "1" before the publication and "2" after.  *)

InitRace ==
    /\ VERSION_MAP = EmptyMap
    /\ lock = {}
    /\ poisoned = FALSE
    /\ mainpc = "recv"
    /\ msg = NoMsg
    /\ names = << >>
    /\ result = NoResult
    /\ output = << >>
    /\ replies = << >>
    /\ pollpc = "sleep"
    /\ todo = << >>
    /\ latest = << >>
    /\ poll_output = << >>
    /\ notes = << >>
    /\ registry = {<<"1">>}

\* crates.io publishes version "2": from now on this is the latest version.
Publish ==
    /\ registry = {<<"1">>}
    /\ registry' = {<<"2">>}
    /\ UNCHANGED <<VERSION_MAP, lock, poisoned, mainVars, pollVars>>

NextRace ==
    \/ Next
    \/ Publish

RaceSpec == InitRace /\ [][NextRace]_vars

----------------------------------------------------------------------------
(* Claims.  A step of a handler is recognised by the positions it leads    *)
(* from and to.                                                            *)

Handled == msg # NoMsg /\ msg.room = Room /\ msg.cmd \in Cmds

\* C1 as stated: whenever the handling of a message of the configured room
\* that carries one of the four commands has ended (the handler returned, or
\* the process ended under it), exactly one reply was sent, to the configured
\* room, and it is the empty string for a remove without names; a message
\* matching no command has no reply.
C1_ExactlyOneReply ==
    /\ (mainpc \in {"done", "dead"} /\ Handled) =>
          /\ Len(replies) = 1
          /\ replies[1].room = Room
          /\ (msg.cmd = "remove" /\ (\A i \in 1..Len(msg.tail) : msg.tail[i] = " "))
                => replies[1].body = << >>
    /\ (msg # NoMsg /\ msg.cmd = "none") => replies = << >>

\* C1 while the Mutex is not poisoned, that is, while no poll cycle has
\* panicked on a registry error: the handler ends only by returning, with
\* exactly one reply.
C1_WhileNotPoisoned ==
    /\ (mainpc = "done" /\ Handled) =>
          /\ Len(replies) = 1
          /\ replies[1].room = Room
          /\ (msg.cmd = "remove" /\ (\A i \in 1..Len(msg.tail) : msg.tail[i] = " "))
                => replies[1].body = << >>
    /\ (mainpc = "dead" /\ msg # NoMsg) => poisoned
    /\ (msg # NoMsg /\ msg.cmd = "none") => replies = << >>
    /\ Len(replies) <= 1

\* C2 (room isolation): while a message of another room is being handled,
\* whatever its command and tail, the handler is already at its end, has
\* stored no registry result, holds no lock and has sent no reply, and no
\* step of the main thread changes VERSION_MAP.
C2_RoomIsolation ==
    [][ /\ (msg' # NoMsg /\ msg'.room # Room) =>
              /\ mainpc' = "done"
              /\ replies' = << >>
              /\ result' = NoResult
              /\ output' = << >>
              /\ "main" \notin lock'
        /\ ((msg' # NoMsg /\ msg'.room # Room) \/ (msg # NoMsg /\ msg.room # Room))
              /\ mainpc' # mainpc
              => VERSION_MAP' = VERSION_MAP ]_vars

C2_Witness ==
    /\ mainpc = "done"
    /\ msg.room = OtherRoom
    /\ msg.cmd = "add"
    /\ msg.tail = <<"a">>
    /\ DOMAIN VERSION_MAP = {<<"a", "a">>}

\* C3 (idempotent add): every insert of an add leaves exactly the old keys
\* plus the added name, the added name holding the version just queried and
\* every other entry as it was, and appends one success line; when the name
\* was already held with that version the map is left as it was, and the
\* line is appended all the same.
C3_IdempotentAdd ==
    [][ (mainpc = "add_insert" /\ mainpc' = "add_next") =>
          LET crate_name == Head(names)
          IN  /\ DOMAIN VERSION_MAP' = DOMAIN VERSION_MAP \cup {crate_name}
              /\ VERSION_MAP'[crate_name] = result.num
              /\ \A k \in DOMAIN VERSION_MAP \ {crate_name} :
                    VERSION_MAP'[k] = VERSION_MAP[k]
              /\ output' = output \o <<"Added '">> \o crate_name
                             \o <<"' version '">> \o result.num \o <<"'\n">>
              /\ (crate_name \in DOMAIN VERSION_MAP
                    /\ VERSION_MAP[crate_name] = result.num)
                    => VERSION_MAP' = VERSION_MAP ]_vars

\* `add a a`, both lookups answering "1": one entry, two success lines.
C3_Witness ==
    /\ mainpc = "done"
    /\ msg.cmd = "add"
    /\ msg.tail = <<"a", " ", "a">>
    /\ DOMAIN VERSION_MAP = {<<"a">>}
    /\ VERSION_MAP[<<"a">>] = <<"1">>
    /\ replies = <<Message(AddedLine(<<"a">>, <<"1">>) \o AddedLine(<<"a">>, <<"1">>))>>

\* C4 (remove unknown): a remove step for a name that is not a key appends
\* the error line for that name and leaves VERSION_MAP as it was; the reply
\* sent is the collected output.
C4_RemoveUnknown ==
    [][ /\ (mainpc = "remove_locked" /\ mainpc' = "remove_next"
              /\ Head(names) \notin DOMAIN VERSION_MAP) =>
              /\ VERSION_MAP' = VERSION_MAP
              /\ output' = output \o <<"Error: '">> \o Head(names)
                             \o <<"' being watched\n">>
        /\ (mainpc = "remove_next" /\ mainpc' = "done") =>
              replies' = <<Message(output)>> ]_vars

C4_Witness ==
    /\ mainpc = "done"
    /\ msg.cmd = "remove"
    /\ DOMAIN VERSION_MAP = {<<"a", "a">>}
    /\ replies = <<Message(NotWatchedLine(<<"a">>))>>

RECURSIVE C5_Concat(_)
C5_Concat(lines) ==
    IF lines = << >> THEN << >> ELSE Head(lines) \o C5_Concat(Tail(lines))

C5_Listings(map) ==
    {C5_Concat([i \in 1..Len(order) |-> ListLine(order[i], map[order[i]])]) :
        order \in IterOrders(map)}

\* C5 (list reflects map): the output of list, built while the lock is held,
\* is "No crates being watched" exactly when VERSION_MAP is empty and is
\* otherwise one line per entry, each with the entry's name and stored
\* version, in some order; that output is the reply.
C5_ListReflectsMap ==
    [][ /\ (mainpc = "list_locked") =>
              /\ lock = {"main"}
              /\ VERSION_MAP' = VERSION_MAP
        /\ (mainpc = "list_locked" /\ mainpc' = "list_send") =>
              /\ (output' = NoCrates) <=> (DOMAIN VERSION_MAP = {})
              /\ DOMAIN VERSION_MAP # {} => output' \in C5_Listings(VERSION_MAP)
        /\ (mainpc = "list_send" /\ mainpc' = "done") =>
              replies' = <<Message(output)>> ]_vars

C5_Witness ==
    /\ mainpc = "done"
    /\ msg.cmd = "list"
    /\ replies = <<Message(ListLine(<<"a", "a">>, <<"2">>) \o ListLine(<<"a">>, <<"1">>))>>
    /\ DOMAIN VERSION_MAP = {<<"a">>, <<"a", "a">>}

\* C6 (poll detects change): a scan visits every entry once; at an entry
\* whose stored version old differs from the version new the registry
\* returns, the entry becomes new, every other entry stays, and one note
\* naming the entry, old and new is appended; at an entry whose stored
\* version is the one returned nothing changes and nothing is appended.  A
\* scan that ends with notes sends them as one message, a scan that ends
\* without notes sends nothing.
C6_PollDetectsChange ==
    [][ /\ (pollpc = "scan" /\ pollpc' = "scan" /\ todo' # todo) =>
              LET crate_name == Head(todo)
                  old == VERSION_MAP[crate_name]
              IN  /\ todo' = Tail(todo)
                  /\ latest' \in Versions
                  /\ DOMAIN VERSION_MAP' = DOMAIN VERSION_MAP
                  /\ VERSION_MAP'[crate_name] = latest'
                  /\ \A k \in DOMAIN VERSION_MAP \ {crate_name} :
                        VERSION_MAP'[k] = VERSION_MAP[k]
                  /\ old # latest' =>
                        poll_output' = poll_output \o <<"'">> \o crate_name
                            \o <<"' updated from version '">> \o old
                            \o <<"' to '">> \o latest' \o <<"'!">>
                  /\ old = latest' =>
                        /\ poll_output' = poll_output
                        /\ VERSION_MAP' = VERSION_MAP
        /\ pollpc' = "scan" =>
              \A i, j \in 1..Len(todo') : i # j => todo'[i] # todo'[j]
        /\ (pollpc = "scan" /\ pollpc' \in {"send", "end"}) =>
              /\ pollpc' = "send" <=> poll_output # << >>
              /\ poll_output' = poll_output
              /\ VERSION_MAP' = VERSION_MAP
              /\ notes' = << >>
        /\ (pollpc = "send" /\ pollpc' # "send") =>
              /\ notes' = <<Message(poll_output)>>
              /\ VERSION_MAP' = VERSION_MAP ]_vars

\* A cycle has sent the one note for a: "1" -> "2", and a holds "2".
C6_Witness ==
    /\ pollpc = "end"
    /\ notes = <<Message(UpdatedNote(<<"a">>, <<"1">>, <<"2">>))>>
    /\ <<"a">> \in DOMAIN VERSION_MAP
    /\ VERSION_MAP[<<"a">>] = <<"2">>

C7_LinesFor(crate_name) ==
    {AddedLine(crate_name, v) : v \in Versions}
        \cup {NotFoundLine(crate_name), ErrorLine(crate_name, ErrorText)}

RECURSIVE C7_Outputs(_)
C7_Outputs(ns) ==
    IF ns = << >> THEN {<< >>}
    ELSE {l \o r : l \in C7_LinesFor(Head(ns)), r \in C7_Outputs(Tail(ns))}

\* C7 (per-name add outcome): add takes its names in order, one lookup per
\* name.  Ok leads to the insert of that name with the returned version and
\* its success line; NotFound appends the not-found line and any other
\* error the generic error line, and both leave VERSION_MAP as it is; in
\* every case the next name is the following one.  The single reply is the
\* output: one line per name of the tail, in the order of the tail.
C7_PerNameAddOutcome ==
    [][ /\ (mainpc = "add_next" /\ names # << >>
              /\ (mainpc' = "add_lock" \/ names' # names)) =>
              LET crate_name == Head(names)
              IN  /\ VERSION_MAP' = VERSION_MAP
                  /\ result'.kind \in {"Ok", "NotFound", "Other"}
                  /\ result'.kind = "Ok" =>
                        /\ mainpc' = "add_lock"
                        /\ names' = names
                        /\ output' = output
                  /\ result'.kind = "NotFound" =>
                        /\ mainpc' = "add_next"
                        /\ names' = Tail(names)
                        /\ output' = output \o <<"Error: '">> \o crate_name
                                        \o <<"' not found\n">>
                  /\ result'.kind = "Other" =>
                        /\ mainpc' = "add_next"
                        /\ names' = Tail(names)
                        /\ output' = output \o <<"Error: '">> \o crate_name
                                        \o <<"', ">> \o ErrorText \o <<"\n">>
        /\ (mainpc = "add_insert" /\ mainpc' = "add_next") =>
              /\ result.kind = "Ok"
              /\ Head(names) \in DOMAIN VERSION_MAP'
              /\ VERSION_MAP'[Head(names)] = result.num
              /\ names' = Tail(names)
              /\ output' = output \o <<"Added '">> \o Head(names)
                             \o <<"' version '">> \o result.num \o <<"'\n">>
        /\ (mainpc = "add_next" /\ mainpc' = "done") =>
              /\ names = << >>
              /\ replies' = <<Message(output')>>
              /\ CrateNames(msg.tail) # << >> =>
                    /\ output' = output
                    /\ output \in C7_Outputs(CrateNames(msg.tail)) ]_vars

\* `add a a` from the empty map: the first lookup Ok("1"), the second NotFound.
C7_Witness ==
    /\ mainpc = "done"
    /\ msg.cmd = "add"
    /\ msg.tail = <<"a", " ", "a">>
    /\ DOMAIN VERSION_MAP = {<<"a">>}
    /\ VERSION_MAP[<<"a">>] = <<"1">>
    /\ replies = <<Message(AddedLine(<<"a">>, <<"1">>) \o NotFoundLine(<<"a">>))>>

C8_OnlySpaces(tail) == \A i \in 1..Len(tail) : tail[i] = " "

C8_AddInRoom == msg # NoMsg /\ msg.cmd = "add" /\ msg.room = Room

C8_State ==
    /\ (C8_AddInRoom /\ C8_OnlySpaces(msg.tail)) =>
          /\ mainpc \in {"add_next", "done"}
          /\ result = NoResult
          /\ "main" \notin lock
          /\ mainpc = "done" => replies = <<Message(NoCrates)>>
    /\ (C8_AddInRoom /\ ~C8_OnlySpaces(msg.tail) /\ mainpc = "done") =>
          /\ Len(replies) = 1
          /\ replies[1].body # NoCrates

\* C8 (empty add list): while an add whose tail is empty or all spaces is
\* handled, no registry result is stored, the handler never takes the lock,
\* no step of the main thread changes VERSION_MAP, and the reply is exactly
\* "No crates being watched"; the reply of an add whose tail holds another
\* character is never that text.
C8_EmptyAddList ==
    [][ /\ C8_State'
        /\ (C8_AddInRoom /\ C8_OnlySpaces(msg.tail) /\ mainpc' # mainpc) =>
              VERSION_MAP' = VERSION_MAP ]_vars

C8_Witness ==
    /\ mainpc = "done"
    /\ C8_AddInRoom
    /\ msg.tail = <<" ", " ">>
    /\ DOMAIN VERSION_MAP = {<<"a">>}
    /\ replies = <<Message(NoCrates)>>

C9_Processed ==
    LET all == CrateNames(msg.tail)
    IN  {all[i] : i \in 1..(Len(all) - Len(names))}

\* C9 (remove present): a remove step for a name that is a key deletes that
\* entry and no other, and appends the removal line with the version the
\* entry held; the names the command has already processed are absent from
\* VERSION_MAP until the reply has been sent (so a repeated name finds no
\* entry the second time), and the reply is the collected output.
C9_RemovePresent ==
    [][ /\ (mainpc = "remove_locked" /\ mainpc' = "remove_next"
              /\ Head(names) \in DOMAIN VERSION_MAP) =>
              LET crate_name == Head(names)
              IN  /\ DOMAIN VERSION_MAP' = DOMAIN VERSION_MAP \ {crate_name}
                  /\ \A k \in DOMAIN VERSION_MAP' : VERSION_MAP'[k] = VERSION_MAP[k]
                  /\ names' = Tail(names)
                  /\ output' = output \o <<"Removed '">> \o crate_name
                                 \o <<"' (version '">> \o VERSION_MAP[crate_name]
                                 \o <<"')\n">>
        /\ (mainpc' \in {"remove_next", "remove_locked"}) =>
              (C9_Processed \cap DOMAIN VERSION_MAP = {})'
        /\ (mainpc = "remove_next" /\ mainpc' = "done") =>
              /\ names = << >>
              /\ C9_Processed \cap DOMAIN VERSION_MAP = {}
              /\ replies' = <<Message(output)>> ]_vars

\* `remove a a` with a -> "1" and aa watched: removed, then an error; aa stays.
C9_Witness ==
    /\ mainpc = "done"
    /\ msg.cmd = "remove"
    /\ msg.tail = <<"a", " ", "a">>
    /\ DOMAIN VERSION_MAP = {<<"a", "a">>}
    /\ replies = <<Message(RemovedLine(<<"a">>, <<"1">>) \o NotWatchedLine(<<"a">>))>>

C10_NoteCount(body) == Cardinality({i \in 1..Len(body) : body[i] = "'!"})

\* C10 (poll message count): a cycle sends at most one message.  The scan
\* starts from every entry of the map and an empty output, each entry adds
\* one note exactly when its stored version differs from the version the
\* registry returned, and only when no entry is left is the output sent, as
\* one message, if it holds a note, and not at all otherwise.
C10_PollMessageCount ==
    [][ /\ Len(notes') <= 1
        /\ pollpc' \in {"sleep", "scan", "send"} => notes' = << >>
        /\ pollpc' = "end" => (Len(notes') = 1 <=> C10_NoteCount(poll_output') > 0)
        /\ (pollpc = "sleep" /\ pollpc' = "scan") =>
              /\ poll_output' = << >>
              /\ Len(todo') = Cardinality(DOMAIN VERSION_MAP)
              /\ {todo'[i] : i \in 1..Len(todo')} = DOMAIN VERSION_MAP
        /\ (pollpc = "scan" /\ pollpc' = "scan" /\ todo' # todo) =>
              C10_NoteCount(poll_output') = C10_NoteCount(poll_output)
                  + (IF VERSION_MAP[Head(todo)] # latest' THEN 1 ELSE 0)
        /\ (pollpc = "scan" /\ pollpc' \notin {"scan", "dead"}) =>
              /\ todo = << >>
              /\ pollpc' = "send" <=> C10_NoteCount(poll_output) > 0
        /\ notes' # notes /\ notes' # << >> =>
              /\ pollpc = "send"
              /\ todo = << >>
              /\ "poll" \notin lock
              /\ notes' = <<Message(poll_output)>> ]_vars

\* One message holding the notes of two entries.
C10_Witness ==
    /\ pollpc = "end"
    /\ Len(notes) = 1
    /\ C10_NoteCount(notes[1].body) = 2

\* C11 as stated (poll-loop registry errors are fatal): once a lookup of a
\* poll cycle has failed, the process has ended: the main thread takes up no
\* further message, no further reply and no further notification is sent,
\* and the poll loop stays ended.
C11_PollErrorFatal ==
    [][ pollpc = "dead" =>
          /\ mainpc = "recv" => msg' = NoMsg
          /\ Len(replies') <= Len(replies)
          /\ Len(notes') <= Len(notes)
          /\ pollpc' = "dead" ]_vars

\* C12 (non-empty versions): in every reachable state every key of
\* VERSION_MAP holds a version that is not the empty string; crates.io is
\* taken to report no empty version number.
C12_NonEmptyVersions ==
    \A crate_name \in DOMAIN VERSION_MAP : Len(VERSION_MAP[crate_name]) > 0

\* Both names watched, one of them with a version a poll cycle has stored.
C12_Witness ==
    /\ DOMAIN VERSION_MAP = KnownNames
    /\ VERSION_MAP[<<"a">>] = <<"2">>
    /\ VERSION_MAP[<<"a", "a">>] = <<"1">>
    /\ pollpc = "end"
    /\ notes = <<Message(UpdatedNote(<<"a">>, <<"1">>, <<"2">>))>>

\* C13 (entry lifecycle): in every step, a key that enters VERSION_MAP is the
\* name an add is inserting after its lookup answered Ok, and a key that
\* leaves it is the name a remove is taking out; a step of the poll loop
\* keeps the keys, and changes the version of an entry only to the version
\* just returned for that entry, which differs from the stored one; no step
\* of a list or help command changes VERSION_MAP.
C13_EntryLifecycle ==
    [][ /\ \A crate_name \in DOMAIN VERSION_MAP' \ DOMAIN VERSION_MAP :
              /\ mainpc = "add_insert"
              /\ msg.cmd = "add"
              /\ result.kind = "Ok"
              /\ crate_name = Head(names)
        /\ \A crate_name \in DOMAIN VERSION_MAP \ DOMAIN VERSION_MAP' :
              /\ mainpc = "remove_locked"
              /\ msg.cmd = "remove"
              /\ crate_name = Head(names)
        /\ (pollpc' # pollpc \/ todo' # todo) =>
              /\ DOMAIN VERSION_MAP' = DOMAIN VERSION_MAP
              /\ \A crate_name \in DOMAIN VERSION_MAP :
                    VERSION_MAP'[crate_name] # VERSION_MAP[crate_name] =>
                       /\ pollpc = "scan"
                       /\ crate_name = Head(todo)
                       /\ VERSION_MAP'[crate_name] = latest'
        /\ (mainpc' # mainpc /\ (msg.cmd \in {"list", "help"}
                                   \/ msg'.cmd \in {"list", "help"}))
              => VERSION_MAP' = VERSION_MAP ]_vars

\* "aa" was added, then removed again by `remove aa`, while "a" stays.
C13_Witness ==
    /\ mainpc = "remove_next"
    /\ msg.cmd = "remove"
    /\ names = << >>
    /\ output = RemovedLine(<<"a", "a">>, <<"2">>)
    /\ DOMAIN VERSION_MAP = {<<"a">>}

C14_MainWaits ==
    \/ mainpc \in {"list_lock", "add_lock"}
    \/ mainpc = "remove_next" /\ names # << >>

C14_PollWaits == pollpc = "sleep"

\* C14 (locking discipline, deadlock freedom): in every reachable state at
\* most one thread holds the guard of VERSION_MAP; a thread that is about to
\* call lock() does not hold it; neither thread holds it where it calls
\* send_message; the main thread does not hold it where it calls
\* latest_version; and when both threads are waiting in lock() no guard is
\* held, so one of them gets it.
C14_LockingDiscipline ==
    /\ Cardinality(lock) <= 1
    /\ lock \subseteq {"main", "poll"}
    /\ C14_MainWaits => "main" \notin lock
    /\ C14_PollWaits => "poll" \notin lock
    /\ mainpc \in {"list_send", "help_send", "add_next", "remove_next"}
          => "main" \notin lock
    /\ pollpc = "send" => "poll" \notin lock
    /\ "main" \in lock => mainpc \in {"list_locked", "add_insert", "remove_locked"}
    /\ "poll" \in lock => pollpc = "scan"
    /\ (C14_MainWaits /\ C14_PollWaits) => lock = {}

\* The main thread waits in lock() for an insert while the poll loop holds
\* the guard in the middle of its scan.
C14_Witness ==
    /\ mainpc = "add_lock"
    /\ lock = {"poll"}
    /\ pollpc = "scan"
    /\ Len(todo) = 1
    /\ Cardinality(DOMAIN VERSION_MAP) = 2

\* C15 (atomic scan): from the start of a scan to its end the poll loop holds
\* the guard and the main thread does not; during a scan no step but the
\* scan's own changes VERSION_MAP, and the main thread neither takes a list
\* snapshot, nor inserts, nor removes: a command that has reached lock()
\* stays there until the scan has ended; and a list snapshot is never taken
\* of a map that a scan has left half way, whether the scan is still running
\* or was cut short by a panic.
C15_AtomicScan ==
    [][ /\ pollpc = "scan" =>
              /\ lock = {"poll"}
              /\ mainpc \notin {"list_locked", "add_insert", "remove_locked"}
              /\ VERSION_MAP' # VERSION_MAP => todo' # todo
              /\ pollpc' = "scan" =>
                    /\ mainpc' \notin {"list_locked", "add_insert", "remove_locked"}
                    /\ mainpc = "list_lock" => mainpc' = "list_lock"
                    /\ mainpc = "add_lock" => mainpc' = "add_lock"
                    /\ (mainpc = "remove_next" /\ names # << >>)
                          => mainpc' = "remove_next"
        /\ mainpc' = "list_locked" =>
              /\ pollpc' # "scan"
              /\ ~poisoned' ]_vars

\* A list command waits in lock() while a scan of two entries has updated
\* the first and has not yet looked at the second.
C15_Witness ==
    /\ pollpc = "scan"
    /\ Len(todo) = 1
    /\ poll_output # << >>
    /\ mainpc = "list_lock"
    /\ msg.cmd = "list"

\* C16 as stated (the poll loop never terminates): in no reachable state has
\* the poll loop ended, whatever crates.io answered.
C16_NeverTerminates == pollpc # "dead"

\* C16, amended: the poll loop has no end but the panic on a failed lookup:
\* in every fair execution either a lookup of a poll cycle fails, and the
\* loop has ended from then on, or the loop starts a scan infinitely often,
\* whatever commands arrive.
C16_RunsUntilLookupFails ==
    ([]<>(pollpc = "scan")) \/ (<>[](pollpc = "dead"))

\* A new cycle has started its scan after an earlier cycle stored "2" over
\* the "1" that the add still in progress had inserted.
C16_Witness ==
    /\ pollpc = "scan"
    /\ todo = << <<"a">> >>
    /\ VERSION_MAP[<<"a">>] = <<"2">>
    /\ mainpc = "add_next"
    /\ names = << >>
    /\ msg.tail = <<"a">>
    /\ output = AddedLine(<<"a">>, <<"1">>)

\* C17 as stated (no silent update): a scan that has stored a new version,
\* and so holds its note in the collected output, ends only by going on to
\* send that output, also when a later entry of the scan meets a registry
\* error; and the send that follows sends exactly that output.
C17_NoSilentUpdate ==
    [][ /\ (pollpc = "scan" /\ pollpc' # "scan" /\ poll_output # << >>) =>
              /\ pollpc' = "send"
              /\ poll_output' = poll_output
        /\ (pollpc = "send" /\ pollpc' # "send") =>
              notes' = Append(notes, Message(poll_output)) ]_vars

\* C18 as stated (no stale overwrite, no duplicate notification), while
\* crates.io changes its latest version once, from "1" to "2": no step sets
\* a stored version back from "2" to "1".  (A lookup that returns "2" is
\* made after the change, and an add inserts the answer of its own lookup,
\* so a stored "2" that an add in progress overwrites with "1" was stored by
\* the poll loop; and the poll loop writes a second note for the change only
\* after such a step, since it writes one only when the stored version
\* differs.)
C18_NoStaleOverwrite ==
    [][ \A crate_name \in DOMAIN VERSION_MAP \cap DOMAIN VERSION_MAP' :
           ~ (/\ VERSION_MAP[crate_name] = <<"2">>
              /\ VERSION_MAP'[crate_name] = <<"1">>) ]_vars

\* C18, amended: the poll loop stores only the version crates.io reports
\* at that moment and writes a note only when it stores; a stored version
\* is set back from "2" to "1" only by the insert of an add whose lookup was
\* answered before the change.
C18_SetBackOnlyByStaleAdd ==
    [][ /\ \A crate_name \in DOMAIN VERSION_MAP \cap DOMAIN VERSION_MAP' :
              (/\ VERSION_MAP[crate_name] = <<"2">>
               /\ VERSION_MAP'[crate_name] = <<"1">>) =>
                 /\ mainpc = "add_insert"
                 /\ crate_name = Head(names)
                 /\ result = [kind |-> "Ok", num |-> <<"1">>]
                 /\ registry = {<<"2">>}
        /\ (pollpc = "scan" /\ pollpc' = "scan" /\ todo' # todo) =>
              /\ latest' \in registry
              /\ \A crate_name \in DOMAIN VERSION_MAP :
                    VERSION_MAP'[crate_name] # VERSION_MAP[crate_name]
                       => VERSION_MAP'[crate_name] \in registry
              /\ poll_output' # poll_output =>
                    /\ VERSION_MAP'[Head(todo)] # VERSION_MAP[Head(todo)]
                    /\ poll_output' = poll_output \o <<"'">> \o Head(todo)
                          \o <<"' updated from version '">>
                          \o VERSION_MAP[Head(todo)] \o <<"' to '">>
                          \o VERSION_MAP'[Head(todo)] \o <<"'!">> ]_vars

\* `add a` of the watched "a" looked "1" up before the change; the poll loop
\* then stored "2" and holds the note for it; the add has now inserted "1".
C18_Witness ==
    /\ registry = {<<"2">>}
    /\ mainpc = "add_next"
    /\ result = Ok(<<"1">>)
    /\ DOMAIN VERSION_MAP = {<<"a">>}
    /\ VERSION_MAP[<<"a">>] = <<"1">>
    /\ pollpc \in {"send", "end"}
    /\ poll_output = UpdatedNote(<<"a">>, <<"1">>, <<"2">>)

====
